---------------------------- MODULE Spec2Model ----------------------------
(***************************************************************************)
(* Model of lzma/setup.py (class GNATCollLZMA): the command-line flags     *)
(* declared by create, the configuration written by update_config and the  *)
(* build variants computed by variants.                                    *)
(*                                                                         *)
(* Byte strings (the content of version_information) are sequences of      *)
(* byte values; Python dictionaries are functions whose DOMAIN is the set  *)
(* of keys that are present.                                               *)
(***************************************************************************)
EXTENDS Integers, Sequences, FiniteSets, TLC

(* ------------------------------ bounds -------------------------------- *)

\* longest enumerated content of version_information, in bytes
MaxLen == 2
\* longest enumerated command line, in option strings
MaxArgv == 2
\* number of times the application is run on the same configuration object
MaxCalls == 2
\* number of calls of variants between two runs
MaxVariantCalls == 2

(* --------------------------- input domains ---------------------------- *)

\* bytes that bytes.strip() removes: \t \n \v \f \r and space
Whitespace == {9, 10, 11, 12, 13, 32}

\* bytes the enumerated contents are built from: space, newline, '1'
Alphabet == {32, 10, 49}

\* b"  1.2.3\n"
ExampleContent == <<32, 32, 49, 46, 50, 46, 51, 10>>

\* b"1.2.3"
ExampleVersion == <<49, 46, 50, 46, 51>>

SeqsUpTo(S, n) == UNION {[1..k -> S] : k \in 0..n}

\* b"\n1 1 ", whitespace between two bytes that are kept
InteriorContent == <<10, 49, 32, 49, 32>>

Contents == SeqsUpTo(Alphabet, MaxLen) \cup {ExampleContent, InteriorContent}

Flags == {"--disable-shared", "--debug"}

Argvs == SeqsUpTo(Flags, MaxArgv)

\* sub-commands handed to variants; only "install" is distinguished
Cmds == {"build", "install", "clean"}

EmptyDict == [k \in {} |-> <<>>]

(* ------------------------------- state -------------------------------- *)

VARIABLES
    pc,        \* position of the single thread of control
    calls,     \* number of runs started so far
    argv,      \* command line of the current run
    args,      \* argparse namespace of the current run
    data,      \* config.data
    entry,     \* config.data as it was when update_config was entered
    fileOpen,  \* TRUE while the descriptor of version_information is open
    opens,     \* number of open() calls made by the current update_config
    reads,     \* number of fd.read() calls that returned
    content,   \* bytes held by version_information when it was opened
    version,   \* local variable version of update_config
    exc,       \* exception in flight or raised by update_config, "" if none
    result     \* outcome of the last call of variants

vars == <<pc, calls, argv, args, data, entry, fileOpen, opens, reads,
          content, version, exc, result>>

(* ------------------------------ create -------------------------------- *)

\* create with shared libraries disabled by default
create_no_shared ==
    { [flag |-> "--disable-shared", dest |-> "enable_shared",
       default |-> FALSE, action |-> "store_false"],
      [flag |-> "--debug", dest |-> "debug",
       default |-> FALSE, action |-> "store_true"] }

\* the two options create adds to the build command's parser
create ==
    { [flag |-> "--disable-shared", dest |-> "enable_shared",
       default |-> TRUE, action |-> "store_false"],
      [flag |-> "--debug", dest |-> "debug",
       default |-> FALSE, action |-> "store_true"] }

Option(dest) == CHOOSE o \in create : o.dest = dest

\* value of one destination after the whole command line was consumed:
\* the default, overridden by the action's constant when the flag occurs
ParseDest(dest, av) ==
    LET o == Option(dest)
    IN  IF \E i \in 1..Len(av) : av[i] = o.flag
        THEN (o.action = "store_true")
        ELSE o.default

parse_args(av) ==
    [enable_shared |-> ParseDest("enable_shared", av),
     debug         |-> ParseDest("debug", av)]

(* ------------------------------ set_data ------------------------------ *)

\* set_data is defined by the SetupApp support module; update_config reads
\* the stored values back as config.data['library_types'] and
\* config.data['gprbuild']['BUILD'].

\* config.set_data(name, value): data[name] = value
set_data(d, name, value) ==
    [k \in DOMAIN d \cup {name} |-> IF k = name THEN value ELSE d[k]]

\* config.set_data(name, value, sub=sub): data[sub][name] = value, the
\* group being created when absent
set_data_sub(d, name, value, sub) ==
    LET group == IF sub \in DOMAIN d THEN d[sub] ELSE EmptyDict
    IN  set_data(d, sub, set_data(group, name, value))

(* ------------------------------- strip -------------------------------- *)

\* index of the first byte that is not whitespace, Len(s) + 1 if none
RECURSIVE LeftIndex(_, _)
LeftIndex(s, i) ==
    IF i <= Len(s) /\ s[i] \in Whitespace THEN LeftIndex(s, i + 1) ELSE i

\* index of the last byte at or after i that is not whitespace, i - 1 if none
RECURSIVE RightIndex(_, _, _)
RightIndex(s, i, j) ==
    IF j >= i /\ s[j] \in Whitespace THEN RightIndex(s, i, j - 1) ELSE j

\* strip that leaves the trailing whitespace in place, as bytes.lstrip()
strip_left_only(s) == SubSeq(s, LeftIndex(s, 1), Len(s))

\* bytes.strip()
strip(s) ==
    LET i == LeftIndex(s, 1)
        j == RightIndex(s, i, Len(s))
    IN  SubSeq(s, i, j)

(* ------------------------------ variants ------------------------------ *)

\* variant that passes the install arguments to every command
variant_always_args(library_type, cmd) ==
    << <<"--build-name=" \o library_type, "--build-var=LIBRARY_TYPE">>,
       [LIBRARY_TYPE |-> library_type, GPR_BUILD |-> library_type] >>

\* variant that sets GPR_BUILD to the default library kind
variant_default_gpr_build(library_type, cmd) ==
    LET gpr_vars == [LIBRARY_TYPE |-> library_type,
                     GPR_BUILD    |-> "static"]
    IN  IF cmd = "install"
        THEN << <<"--build-name=" \o library_type,
                  "--build-var=LIBRARY_TYPE">>, gpr_vars >>
        ELSE << <<>>, gpr_vars >>

\* one iteration of the loop of variants
variant(library_type, cmd) ==
    LET gpr_vars == [LIBRARY_TYPE |-> library_type,
                     GPR_BUILD    |-> library_type]
    IN  IF cmd = "install"
        THEN << <<"--build-name=" \o library_type,
                  "--build-var=LIBRARY_TYPE">>, gpr_vars >>
        ELSE << <<>>, gpr_vars >>

\* loop that inserts each variant at the front of the result
RECURSIVE variants_loop_prepend(_, _, _)
variants_loop_prepend(types, cmd, acc) ==
    IF types = <<>> THEN acc
    ELSE variants_loop_prepend(Tail(types), cmd,
                               <<variant(Head(types), cmd)>> \o acc)

\* the loop of variants over config.data['library_types']
RECURSIVE variants_loop(_, _, _)
variants_loop(types, cmd, acc) ==
    IF types = <<>> THEN acc
    ELSE variants_loop(Tail(types), cmd, Append(acc, variant(Head(types), cmd)))

\* variants(config, cmd): KeyError when library_types is not in config.data
variants(d, cmd) ==
    IF "library_types" \in DOMAIN d
    THEN [cmd |-> cmd, error |-> "",
          value |-> variants_loop(d["library_types"], cmd, <<>>)]
    ELSE [cmd |-> cmd, error |-> "KeyError", value |-> <<>>]

\* result before the first call of variants; n counts the calls
\* repeated tells whether the call before it had the same cmd
NoResult ==
    [n |-> 0, repeated |-> FALSE, cmd |-> "", error |-> "", value |-> <<>>]

(* ------------------------------ actions ------------------------------- *)

Init ==
    /\ pc = "main"
    /\ calls = 0
    /\ argv = <<>>
    /\ args = parse_args(<<>>)
    /\ data = EmptyDict
    /\ entry = EmptyDict
    /\ fileOpen = FALSE
    /\ opens = 0
    /\ reads = 0
    /\ content = <<>>
    /\ version = <<>>
    /\ exc = ""
    /\ result = NoResult

\* app.run(): the command line is parsed and update_config is entered
run(av) ==
    /\ pc \in {"main", "returned", "raised"}
    /\ calls < MaxCalls
    /\ calls' = calls + 1
    /\ argv' = av
    /\ args' = parse_args(av)
    /\ entry' = data
    /\ opens' = 0
    /\ reads' = 0
    /\ content' = <<>>
    /\ version' = <<>>
    /\ exc' = ""
    /\ result' = NoResult
    /\ pc' = "library_types"
    /\ UNCHANGED <<data, fileOpen>>

\* library_types with the relocatable kind listed first
library_types_relocatable_first(a) ==
    IF a.enable_shared
    THEN <<"relocatable", "static-pic", "static">>
    ELSE <<"static">>

\* value update_config stores under library_types
library_types(a) ==
    IF a.enable_shared
    THEN <<"static", "static-pic", "relocatable">>
    ELSE <<"static">>

\* update_config, lines 32-39
set_library_types ==
    /\ pc = "library_types"
    /\ data' = set_data(data, "library_types", library_types(args))
    /\ pc' = "open"
    /\ UNCHANGED <<calls, argv, args, entry, fileOpen, opens, reads,
                   content, version, exc, result>>

\* update_config, lines 42-43: open() returns a descriptor
open_ok(c) ==
    /\ pc = "open"
    /\ fileOpen' = TRUE
    /\ opens' = opens + 1
    /\ content' = c
    /\ pc' = "read"
    /\ UNCHANGED <<calls, argv, args, data, entry, reads, version, exc,
                   result>>

\* update_config, lines 42-43: open() raises, the file is missing or
\* unreadable
open_fail ==
    /\ pc = "open"
    /\ opens' = opens + 1
    /\ exc' = "FileNotFoundError"
    /\ pc' = "raised"
    /\ UNCHANGED <<calls, argv, args, data, entry, fileOpen, reads,
                   content, version, result>>

\* update_config, line 44: fd.read().strip()
read_ok ==
    /\ pc = "read"
    /\ reads' = reads + 1
    /\ version' = strip(content)
    /\ pc' = "exit_with"
    /\ UNCHANGED <<calls, argv, args, data, entry, fileOpen, opens,
                   content, exc, result>>

\* update_config, line 44: fd.read() raises
read_fail ==
    /\ pc = "read"
    /\ exc' = "IOError"
    /\ pc' = "exit_with"
    /\ UNCHANGED <<calls, argv, args, data, entry, fileOpen, opens, reads,
                   content, version, result>>

\* descriptor closed on the normal path only
with_exit_leak(e) == e # ""

\* state of the descriptor when the with block is left: closed, whether or
\* not an exception is in flight
with_exit(e) == FALSE

\* exception of the read suppressed when the with block is left
after_with_suppress(e) == "set_version"

\* where control goes when the with block is left: the exception of the
\* read is propagated, not suppressed
after_with(e) == IF e = "" THEN "set_version" ELSE "raised"

\* update_config, lines 42-44: the with block is left, normally or by the
\* exception of the read
exit_with ==
    /\ pc = "exit_with"
    /\ fileOpen' = with_exit(exc)
    /\ pc' = after_with(exc)
    /\ UNCHANGED <<calls, argv, args, data, entry, opens, reads, content,
                   version, exc, result>>

\* update_config, line 45
set_version ==
    /\ pc = "set_version"
    /\ data' = set_data_sub(data, "GNATCOLL_VERSION", version, "gprbuild")
    /\ pc' = "set_build"
    /\ UNCHANGED <<calls, argv, args, entry, fileOpen, opens, reads,
                   content, version, exc, result>>

\* build mode that ignores the debug flag
build_mode_always_prod(a) == "PROD"

\* value update_config stores under BUILD
build_mode(a) == IF a.debug THEN "DEBUG" ELSE "PROD"

\* update_config, lines 48-51
set_build ==
    /\ pc = "set_build"
    /\ data' = set_data_sub(data, "BUILD", build_mode(args), "gprbuild")
    /\ pc' = "returned"
    /\ UNCHANGED <<calls, argv, args, entry, fileOpen, opens, reads,
                   content, version, exc, result>>

\* variants that consumes the list it iterates over
variants_data_consume(d, cmd) ==
    IF "library_types" \in DOMAIN d
    THEN [d EXCEPT !["library_types"] = <<>>]
    ELSE d

\* config.data after a call of variants
variants_data(d, cmd) == d

\* a call of variants(config, cmd) between two runs of update_config
call_variants(cmd) ==
    /\ pc \in {"main", "returned", "raised"}
    /\ result.n < MaxVariantCalls
    /\ result' = [n |-> result.n + 1,
                  repeated |-> (result.n > 0 /\ result.cmd = cmd)]
                    @@ variants(data, cmd)
    /\ data' = variants_data(data, cmd)
    /\ UNCHANGED <<pc, calls, argv, args, entry, fileOpen, opens, reads,
                   content, version, exc>>

Next ==
    \/ \E av \in Argvs : run(av)
    \/ set_library_types
    \/ \E c \in Contents : open_ok(c)
    \/ open_fail
    \/ read_ok
    \/ read_fail
    \/ exit_with
    \/ set_version
    \/ set_build
    \/ \E cmd \in Cmds : call_variants(cmd)

Spec == Init /\ [][Next]_vars

(* ------------------------------ properties ---------------------------- *)

Returned == pc = "returned"

HasFlag(f) == \E i \in 1..Len(argv) : argv[i] = f

AllWhitespace(s) == \A i \in 1..Len(s) : s[i] \in Whitespace

\* v is c without a whitespace prefix and a whitespace suffix, and neither
\* end of v is whitespace
IsStripOf(v, c) ==
    /\ \E p \in 0..Len(c) : \E q \in 0..Len(c) :
          /\ p + Len(v) + q = Len(c)
          /\ AllWhitespace(SubSeq(c, 1, p))
          /\ AllWhitespace(SubSeq(c, Len(c) - q + 1, Len(c)))
          /\ v = SubSeq(c, p + 1, p + Len(v))
    /\ v # <<>> => v[1] \notin Whitespace /\ v[Len(v)] \notin Whitespace

\* the variants call whose result is in result succeeded
VariantsReturned == result.n > 0 /\ result.error = ""

\* C1: once update_config has completed, library_types is exactly [static]
\* when enable_shared is false and exactly [static, static-pic, relocatable]
\* when it is true, whatever debug and the version file are.
C1_LibraryTypes ==
    Returned =>
        /\ "library_types" \in DOMAIN data
        /\ data["library_types"] =
              IF args.enable_shared
              THEN <<"static", "static-pic", "relocatable">>
              ELSE <<"static">>

C1_Witness ==
    /\ Returned
    /\ args.enable_shared
    /\ args.debug
    /\ Len(data["library_types"]) = 3
    /\ data["library_types"][1] = "static"

\* C2: variants returns one variant per entry of library_types, and the
\* i-th variant's LIBRARY_TYPE is the i-th entry of library_types.
C2_VariantsFollowLibraryTypes ==
    VariantsReturned =>
        /\ Len(result.value) = Len(data["library_types"])
        /\ \A i \in 1..Len(result.value) :
              result.value[i][2]["LIBRARY_TYPE"] = data["library_types"][i]

C2_Witness ==
    /\ VariantsReturned
    /\ result.cmd = "build"
    /\ Len(result.value) = 3
    /\ result.value[1][2]["LIBRARY_TYPE"] = "static"
    /\ result.value[3][2]["LIBRARY_TYPE"] = "relocatable"

\* the --build-name argument of each library kind
BuildName(kind) ==
    CASE kind = "static"      -> "--build-name=static"
      [] kind = "static-pic"  -> "--build-name=static-pic"
      [] kind = "relocatable" -> "--build-name=relocatable"

\* C3: for the install command every variant's argument list is
\* --build-name=<kind> followed by --build-var=LIBRARY_TYPE, for any other
\* command it is empty.
C3_InstallArguments ==
    VariantsReturned =>
        \A i \in 1..Len(result.value) :
            result.value[i][1] =
                IF result.cmd = "install"
                THEN <<BuildName(data["library_types"][i]),
                       "--build-var=LIBRARY_TYPE">>
                ELSE <<>>

C3_Witness ==
    /\ VariantsReturned
    /\ result.cmd = "install"
    /\ Len(result.value) = 3
    /\ result.value[2][1] = <<"--build-name=static-pic",
                              "--build-var=LIBRARY_TYPE">>

\* the gprbuild group is the same in d and e: absent in both, or equal
SameGprbuild(d, e) ==
    /\ ("gprbuild" \in DOMAIN d) = ("gprbuild" \in DOMAIN e)
    /\ "gprbuild" \in DOMAIN d => d["gprbuild"] = e["gprbuild"]

\* C4 as stated: a failed update_config leaves library_types, the version
\* variable and BUILD as they were on entry.
C4_NoPartialConfiguration == pc = "raised" => data = entry

\* C4 as amended: an error of the open or of the read is propagated and
\* nothing is written after it, so the version variable and BUILD are as
\* they were on entry; library_types has already been set from
\* enable_shared.
C4_FailureKeepsGprbuild ==
    /\ exc # "" => pc \in {"exit_with", "raised"}
    /\ pc = "raised" =>
          /\ exc \in {"FileNotFoundError", "IOError"}
          /\ SameGprbuild(data, entry)
          /\ data["library_types"] =
                IF args.enable_shared
                THEN <<"static", "static-pic", "relocatable">>
                ELSE <<"static">>

C4_Witness ==
    /\ pc = "raised"
    /\ exc = "FileNotFoundError"
    /\ "gprbuild" \in DOMAIN entry
    /\ data["library_types"] # entry["library_types"]

\* C5: once update_config has completed, BUILD is DEBUG when the debug flag
\* is set and PROD otherwise.
C5_BuildMode ==
    Returned =>
        /\ "gprbuild" \in DOMAIN data
        /\ "BUILD" \in DOMAIN data["gprbuild"]
        /\ data["gprbuild"]["BUILD"] = IF args.debug THEN "DEBUG" ELSE "PROD"

C5_Witness ==
    /\ Returned
    /\ args.debug
    /\ ~args.enable_shared
    /\ data["gprbuild"]["BUILD"] = "DEBUG"

\* C6 as stated: once update_config has completed, the gprbuild group has a
\* key VERSION holding the stripped content of the version file.
C6_VersionKey ==
    Returned =>
        /\ "VERSION" \in DOMAIN data["gprbuild"]
        /\ IsStripOf(data["gprbuild"]["VERSION"], content)

\* C6 as amended: the key is GNATCOLL_VERSION; its value is the content of
\* the version file without its leading and trailing whitespace, interior
\* bytes unchanged, and b"  1.2.3\n" gives b"1.2.3".
C6_GnatcollVersion ==
    Returned =>
        /\ "gprbuild" \in DOMAIN data
        /\ "GNATCOLL_VERSION" \in DOMAIN data["gprbuild"]
        /\ IsStripOf(data["gprbuild"]["GNATCOLL_VERSION"], content)
        /\ content = ExampleContent =>
              data["gprbuild"]["GNATCOLL_VERSION"] = ExampleVersion

C6_Witness ==
    /\ Returned
    /\ content = ExampleContent
    /\ data["gprbuild"]["GNATCOLL_VERSION"] = ExampleVersion

\* C7: every variant sets exactly LIBRARY_TYPE and GPR_BUILD, both to the
\* variant's library kind, for every command.
C7_GprVars ==
    VariantsReturned =>
        \A i \in 1..Len(result.value) :
            /\ DOMAIN result.value[i][2] = {"LIBRARY_TYPE", "GPR_BUILD"}
            /\ result.value[i][2]["GPR_BUILD"] = data["library_types"][i]
            /\ result.value[i][2]["GPR_BUILD"] =
                  result.value[i][2]["LIBRARY_TYPE"]

C7_Witness ==
    /\ VariantsReturned
    /\ result.cmd = "clean"
    /\ Len(result.value) = 3
    /\ result.value[3][2]["GPR_BUILD"] = "relocatable"

\* C8: enable_shared is true unless --disable-shared is given and debug is
\* false unless --debug is given, each flag leaving the other destination
\* alone; an empty command line gives the three library types and PROD.
C8_FlagDefaults ==
    /\ args.enable_shared = ~HasFlag("--disable-shared")
    /\ args.debug = HasFlag("--debug")
    /\ (Returned /\ argv = <<>>) =>
          /\ data["library_types"] = <<"static", "static-pic", "relocatable">>
          /\ data["gprbuild"]["BUILD"] = "PROD"

C8_Witness ==
    /\ Returned
    /\ argv = <<"--disable-shared">>
    /\ ~args.enable_shared
    /\ ~args.debug

\* C9: the version file is opened at most once and read at most once by a
\* call of update_config, is open only between the open and the end of the
\* with block, and is closed when update_config has returned or raised.
C9_FileClosed ==
    /\ opens <= 1
    /\ reads <= opens
    /\ fileOpen => pc \in {"read", "exit_with"}
    /\ pc \in {"returned", "raised"} => ~fileOpen
    /\ Returned => opens = 1 /\ reads = 1

C9_Witness ==
    /\ pc = "raised"
    /\ exc = "IOError"
    /\ opens = 1
    /\ reads = 0
    /\ ~fileOpen

\* C10: a call of variants leaves config.data unchanged, raises nothing
\* when library_types is present, and returns what the call before it
\* returned when that call had the same cmd.
C10_VariantsPure ==
    [][\A cmd \in Cmds :
          call_variants(cmd) =>
              /\ data' = data
              /\ "library_types" \in DOMAIN data => result'.error = ""
              /\ (result.n > 0 /\ result.cmd = cmd) =>
                    /\ result'.value = result.value
                    /\ result'.error = result.error]_vars

C10_Witness ==
    /\ Returned
    /\ result.n = 2
    /\ result.repeated
    /\ result.error = ""
    /\ Len(result.value) = 3


=============================================================================
